---------------------------- MODULE Spec2Model ----------------------------
(***************************************************************************)
(* Model of the performance-metrics engine of the leaderboard dashboard   *)
(* (src/src/components/LeaderboardHistory.tsx): the helpers               *)
(* calculateReturns, calculateMaxDrawdown, calculateSharpeRatio,           *)
(* calculateSortinoRatio, calculateCalmarRatio, the aggregator             *)
(* calculateTeamMetrics, and the component's refresh cycle (fetchData).    *)
(*                                                                         *)
(* Numbers.  A JavaScript value is a record [k, n, d]:                     *)
(*   k = "num"        the finite number n/d (d > 0, lowest terms)          *)
(*   k = "nan" | "inf" | "ninf"          NaN, +Infinity, -Infinity         *)
(*   k = "undefined" | "string" | "null" a value that is not a number      *)
(*   k = "surd"       sgn * sqrt(n/d), the result of a division by a       *)
(*                    Math.sqrt (record with the extra field sgn)          *)
(* Arithmetic on finite numbers is exact (no rounding, no overflow);       *)
(* division by zero, NaN and the infinities follow IEEE-754.  The sign of  *)
(* a zero is not modelled.  Where the outcome of an exact test depends on   *)
(* rounding (stdDev === 0), the function is given a second time in binary  *)
(* floating-point arithmetic: calculateSharpeRatioRounded.                 *)
(***************************************************************************)
EXTENDS Integers, Sequences, FiniteSets, TLC

\* ------------------------------------------------------------------ bounds
\* finite inputs are the integers -MaxVal .. MaxVal
MaxVal == 3
\* longest raw series / value sequence given to a function
MaxLen == 3

\* ----------------------------------------------------------------- numbers
Abs(i) == IF i < 0 THEN -i ELSE i

RECURSIVE GCD(_, _)
GCD(a, b) == IF b = 0 THEN a ELSE GCD(b, a % b)

\* the finite number n/d (d # 0), in lowest terms with a positive denominator
Rat(n, d) ==
  LET g == GCD(Abs(n), Abs(d))
      s == IF d < 0 THEN -1 ELSE 1
  IN  [k |-> "num", n |-> (s * n) \div g, d |-> (s * d) \div g]

Num(i) == [k |-> "num", n |-> i, d |-> 1]
Zero == Num(0)
NaN == [k |-> "nan", n |-> 0, d |-> 1]
PosInf == [k |-> "inf", n |-> 0, d |-> 1]
NegInf == [k |-> "ninf", n |-> 0, d |-> 1]
Undefined == [k |-> "undefined", n |-> 0, d |-> 1]
BadString == [k |-> "string", n |-> 0, d |-> 1]
NullValue == [k |-> "null", n |-> 0, d |-> 1]

\* typeof v === 'number'
IsNumberType(v) == v.k \in {"num", "nan", "inf", "ninf", "surd"}

\* the global isFinite(v): v is coerced with Number(v) first, so null (-> 0)
\* passes, undefined and a non-numeric string (-> NaN) do not
isFinite(v) == v.k \in {"num", "surd", "null"}

IsInf(a) == a.k \in {"inf", "ninf"}
Sgn(a) ==
  CASE a.k = "inf" -> 1
    [] a.k = "ninf" -> -1
    [] a.k = "surd" -> a.sgn
    [] OTHER -> IF a.n > 0 THEN 1 ELSE IF a.n < 0 THEN -1 ELSE 0
InfOf(s) == IF s > 0 THEN PosInf ELSE NegInf

\* a === 0
IsZero(a) == a.k = "num" /\ a.n = 0

Neg(a) ==
  CASE a.k = "inf" -> NegInf
    [] a.k = "ninf" -> PosInf
    [] a.k = "nan" -> NaN
    [] OTHER -> Rat(-a.n, a.d)

\* a + b
Add(a, b) ==
  IF a.k = "nan" \/ b.k = "nan" THEN NaN
  ELSE IF IsInf(a) /\ IsInf(b) THEN (IF a.k = b.k THEN a ELSE NaN)
  ELSE IF IsInf(a) THEN a
  ELSE IF IsInf(b) THEN b
  ELSE Rat(a.n * b.d + b.n * a.d, a.d * b.d)

\* a - b
Sub(a, b) == Add(a, Neg(b))

\* a * b
Mul(a, b) ==
  IF a.k = "nan" \/ b.k = "nan" THEN NaN
  ELSE IF IsInf(a) \/ IsInf(b)
       THEN (IF Sgn(a) * Sgn(b) = 0 THEN NaN ELSE InfOf(Sgn(a) * Sgn(b)))
  ELSE Rat(a.n * b.n, a.d * b.d)

\* a / b
Div(a, b) ==
  IF a.k = "nan" \/ b.k = "nan" THEN NaN
  ELSE IF IsInf(a) /\ IsInf(b) THEN NaN
  ELSE IF IsInf(a) THEN InfOf(Sgn(a) * (IF Sgn(b) < 0 THEN -1 ELSE 1))
  ELSE IF IsInf(b) THEN Zero
  ELSE IF b.n = 0 THEN (IF a.n = 0 THEN NaN ELSE InfOf(Sgn(a)))
  ELSE Rat(a.n * b.d, a.d * b.n)

\* a > b (false when either is NaN)
Gt(a, b) ==
  IF a.k = "nan" \/ b.k = "nan" THEN FALSE
  ELSE IF a.k = "inf" THEN b.k # "inf"
  ELSE IF a.k = "ninf" THEN FALSE
  ELSE IF b.k = "inf" THEN FALSE
  ELSE IF b.k = "ninf" THEN TRUE
  ELSE a.n * b.d > b.n * a.d

\* a < b
Lt(a, b) == Gt(b, a)

\* sgn * sqrt(q) for q >= 0, q the square of the value; a zero result is the
\* number 0, a NaN or infinite square gives NaN or the infinity of that sign
Surd(sgn, q) ==
  IF q.k = "nan" THEN NaN
  ELSE IF IsInf(q) THEN (IF sgn = 0 THEN NaN ELSE InfOf(sgn))
  ELSE IF sgn = 0 \/ q.n = 0 THEN Zero
  ELSE [k |-> "surd", n |-> q.n, d |-> q.d, sgn |-> sgn]

\* the square of a finite number
SquareOf(x) == IF x.k = "surd" THEN Rat(x.n, x.d) ELSE Mul(x, x)

\* the sign of a - b for finite numbers a and b, surds included
Compare(a, b) ==
  IF Sgn(a) # Sgn(b) THEN (IF Sgn(a) > Sgn(b) THEN 1 ELSE -1)
  ELSE IF Gt(SquareOf(a), SquareOf(b)) THEN Sgn(a)
  ELSE IF Lt(SquareOf(a), SquareOf(b)) THEN -Sgn(a)
  ELSE 0

Hundred == 100
TradingDays == 252

\* ----------------------------------------------------------------- helpers
\* returns.reduce((sum, r) => sum + r, 0)
RECURSIVE Sum(_)
Sum(s) == IF s = <<>> THEN Zero ELSE Add(Head(s), Sum(Tail(s)))

\* mutant: a skipped pair pushes 0 instead of nothing
PairReturnZeroFill(prev, cur) ==
  LET ret == Div(Sub(cur, prev), prev)
  IN  IF ~IsZero(prev) /\ isFinite(cur) /\ isFinite(prev) /\ isFinite(ret)
      THEN <<ret>> ELSE <<Zero>>

\* one turn of the loop of calculateReturns: what the pair (values[i-1],
\* values[i]) pushes
PairReturn(prev, cur) ==
  LET ret == Div(Sub(cur, prev), prev)
  IN  IF ~IsZero(prev) /\ isFinite(cur) /\ isFinite(prev) /\ isFinite(ret)
      THEN <<ret>> ELSE <<>>

\* const returns = []; for (let i = 1; i < values.length; i++) ...
RECURSIVE ReturnsFrom(_, _)
ReturnsFrom(values, i) ==
  IF i > Len(values) THEN <<>>
  ELSE PairReturn(values[i - 1], values[i]) \o ReturnsFrom(values, i + 1)

calculateReturns(values) == ReturnsFrom(values, 2)

\* mutant: the running peak stays at values[0]
NextPeakFrozen(value, peak) == peak

\* if (value > peak) peak = value
NextPeak(value, peak) == IF Gt(value, peak) THEN value ELSE peak

\* mutant: the last drawdown is kept instead of the largest
NextMaxDrawdownLast(drawdown, maxDrawdown) == drawdown

\* mutant: the test is !(drawdown <= maxDrawdown), which a NaN drawdown passes
NextMaxDrawdownNotLe(drawdown, maxDrawdown) ==
  IF Gt(maxDrawdown, drawdown) \/ (drawdown.k # "nan" /\ drawdown = maxDrawdown)
  THEN maxDrawdown ELSE drawdown

\* if (drawdown > maxDrawdown) maxDrawdown = drawdown
NextMaxDrawdown(drawdown, maxDrawdown) ==
  IF Gt(drawdown, maxDrawdown) THEN drawdown ELSE maxDrawdown

\* mutant: the decline is taken relative to the value, not to the peak
DrawdownOverValue(peak, value) == Div(Sub(peak, value), value)

\* (peak - value) / peak
Drawdown(peak, value) == Div(Sub(peak, value), peak)

\* the loop of calculateMaxDrawdown from position i on, with the running peak
\* and the largest drawdown seen so far
RECURSIVE DrawdownLoop(_, _, _, _)
DrawdownLoop(values, i, peak, maxDrawdown) ==
  IF i > Len(values) THEN maxDrawdown
  ELSE LET value == values[i]
           peak2 == NextPeak(value, peak)
           drawdown == Drawdown(peak2, value)
       IN  DrawdownLoop(values, i + 1, peak2, NextMaxDrawdown(drawdown, maxDrawdown))

calculateMaxDrawdown(values) ==
  IF Len(values) = 0 THEN Zero
  ELSE Mul(DrawdownLoop(values, 1, values[1], Zero), Num(Hundred))

\* returns.reduce((sum, r) => sum + Math.pow(r - mean, 2), 0)
RECURSIVE SumSqDev(_, _)
SumSqDev(s, mean) ==
  IF s = <<>> THEN Zero
  ELSE Add(Mul(Sub(Head(s), mean), Sub(Head(s), mean)), SumSqDev(Tail(s), mean))

\* mutant: the annualized return loses its sign
AnnualizedReturnNegated(mean) == Mul(mean, Num(-TradingDays))

\* mean * 252
AnnualizedReturn(mean) == Mul(mean, Num(TradingDays))

\* annualizedReturn / (Math.sqrt(variance) * Math.sqrt(252)), for variance > 0
AnnualizedRatio(mean, variance) ==
  LET annualizedReturn == AnnualizedReturn(mean)
  IN  Surd(Sgn(annualizedReturn),
           Div(Mul(annualizedReturn, annualizedReturn),
               Mul(variance, Num(TradingDays))))

\* mutant: the variance is divided by n, not by n - 1
PopulationVariance(returns, mean) ==
  Div(SumSqDev(returns, mean), Num(Len(returns)))

\* returns.reduce(...) / (returns.length - 1)
SampleVariance(returns, mean) ==
  Div(SumSqDev(returns, mean), Num(Len(returns) - 1))

calculateSharpeRatio(returns) ==
  IF Len(returns) < 2 THEN Zero
  ELSE LET mean == Div(Sum(returns), Num(Len(returns)))
           variance == SampleVariance(returns, mean)
       IN  IF IsZero(variance) THEN Zero
           ELSE AnnualizedRatio(mean, variance)

\* ------------------------------------------- calculateSharpeRatio, rounded
\* The exact test stdDev === 0 depends on the rounding of every operation
\* before it.  A JavaScript number is a binary floating-point number with a
\* 53-bit significand, each operation rounded to nearest, ties to even; here
\* the significand has MantissaBits bits and the exponent is unbounded.
MantissaBits == 3

RECURSIVE Pow2(_)
Pow2(k) == IF k = 0 THEN 1 ELSE 2 * Pow2(k - 1)

\* a significand m has SignificandMin <= m < SignificandEnd
SignificandMin == Pow2(MantissaBits - 1)
SignificandEnd == Pow2(MantissaBits)

\* e with SignificandMin <= (n/d) / 2^e < SignificandEnd, and n/d scaled
\* by 2^(-e), for n, d > 0
RECURSIVE Normalize(_, _, _)
Normalize(n, d, e) ==
  IF n >= SignificandEnd * d THEN Normalize(n, 2 * d, e + 1)
  ELSE IF n < SignificandMin * d THEN Normalize(2 * n, d, e - 1)
  ELSE [n |-> n, d |-> d, e |-> e]

\* the integer nearest to n/d, ties to the even one
RoundNearestEven(n, d) ==
  LET f == n \div d
      r == n % d
  IN  IF 2 * r > d \/ (2 * r = d /\ f % 2 = 1) THEN f + 1 ELSE f

\* the floating-point number nearest to a
RoundToFloat(a) ==
  IF a.k # "num" \/ a.n = 0 THEN a
  ELSE LET t == Normalize(Abs(a.n), a.d, 0)
           m == Sgn(a) * RoundNearestEven(t.n, t.d)
       IN  IF t.e >= 0 THEN Num(m * Pow2(t.e)) ELSE Rat(m, Pow2(-t.e))

AsFloats(values) == [i \in 1..Len(values) |-> RoundToFloat(values[i])]

\* returns.reduce((sum, r) => sum + r, 0), from position i on
RECURSIVE SumRounded(_, _, _)
SumRounded(returns, i, sum) ==
  IF i > Len(returns) THEN sum
  ELSE SumRounded(returns, i + 1, RoundToFloat(Add(sum, returns[i])))

\* returns.reduce((sum, r) => sum + Math.pow(r - mean, 2), 0), from position i on
RECURSIVE SumSqDevRounded(_, _, _, _)
SumSqDevRounded(returns, mean, i, sum) ==
  IF i > Len(returns) THEN sum
  ELSE LET dev == RoundToFloat(Sub(returns[i], mean))
           sq == RoundToFloat(Mul(dev, dev))
       IN  SumSqDevRounded(returns, mean, i + 1, RoundToFloat(Add(sum, sq)))

\* calculateSharpeRatio with every operation up to the test stdDev === 0
\* rounded; the square root of a positive number is positive, and the value
\* returned after the test is nonzero exactly when the mean is
calculateSharpeRatioRounded(returns) ==
  IF Len(returns) < 2 THEN Zero
  ELSE LET mean == RoundToFloat(Div(SumRounded(returns, 1, Zero), Num(Len(returns))))
           variance == RoundToFloat(Div(SumSqDevRounded(returns, mean, 1, Zero),
                                        Num(Len(returns) - 1)))
       IN  IF IsZero(variance) THEN Zero
           ELSE AnnualizedRatio(mean, variance)

\* mutant: the filter keeps the gains instead of the losses
IsDownsideFlipped(r) == Gt(r, Zero)

\* mutant: the filter keeps every return
IsDownsideAll(r) == TRUE

\* r => r < 0
IsDownside(r) == Lt(r, Zero)

\* mutant: the squares of the losses are divided by the number of all returns
DownsideVarianceOverAll(returns, downsideReturns) ==
  Div(SumSqDev(downsideReturns, Zero), Num(Len(returns)))

\* downsideReturns.reduce((sum, r) => sum + Math.pow(r, 2), 0) / downsideReturns.length
DownsideVariance(returns, downsideReturns) ==
  Div(SumSqDev(downsideReturns, Zero), Num(Len(downsideReturns)))

\* mutant: the test returns.length < 2 is dropped
calculateSortinoRatioAnyLength(returns) ==
  LET mean == Div(Sum(returns), Num(Len(returns)))
      downsideReturns == SelectSeq(returns, IsDownside)
  IN  IF Len(downsideReturns) = 0 THEN Zero
      ELSE LET downsideVariance == DownsideVariance(returns, downsideReturns)
           IN  IF IsZero(downsideVariance) THEN Zero
               ELSE AnnualizedRatio(mean, downsideVariance)

calculateSortinoRatio(returns) ==
  IF Len(returns) < 2 THEN Zero
  ELSE LET mean == Div(Sum(returns), Num(Len(returns)))
           downsideReturns == SelectSeq(returns, IsDownside)
       IN  IF Len(downsideReturns) = 0 THEN Zero
           ELSE LET downsideVariance == DownsideVariance(returns, downsideReturns)
                IN  IF IsZero(downsideVariance) THEN Zero
                    ELSE AnnualizedRatio(mean, downsideVariance)

\* mutant: only the drawdown is turned back into a fraction
calculateCalmarRatioMixed(totalReturn, maxDrawdown) ==
  IF IsZero(maxDrawdown) THEN Zero
  ELSE Div(totalReturn, Div(maxDrawdown, Num(Hundred)))

calculateCalmarRatio(totalReturn, maxDrawdown) ==
  IF IsZero(maxDrawdown) THEN Zero
  ELSE Div(Div(totalReturn, Num(Hundred)), Div(maxDrawdown, Num(Hundred)))

\* ------------------------------------------------------ calculateTeamMetrics
\* A raw series is [shape, elems]: shape "absent" (undefined or null),
\* "array", or "object" (a truthy value that is no array: no length, no map).
\* An element is [obj, value]: obj = FALSE is a null/undefined element (reading
\* its .value throws a TypeError); value = Undefined is a missing value field.
Absent == [shape |-> "absent", elems |-> <<>>]
NotArray == [shape |-> "object", elems |-> <<>>]
Array(elems) == [shape |-> "array", elems |-> elems]
Point(v) == [obj |-> TRUE, value |-> v]
NullElem == [obj |-> FALSE, value |-> Undefined]

\* what a call does: return the record rec, or throw
Return(rec) == [threw |-> FALSE, rec |-> rec]
MetricsRecord(teamId, totalReturn, maxDrawdown, sharpe, sortino, calmar, current, starting) ==
  [team_id |-> teamId, total_return |-> totalReturn, max_drawdown |-> maxDrawdown,
   sharpe_ratio |-> sharpe, sortino_ratio |-> sortino, calmar_ratio |-> calmar,
   current_value |-> current, starting_value |-> starting]
ZeroedRecord(teamId) == MetricsRecord(teamId, Zero, Zero, Zero, Zero, Zero, Zero, Zero)
Throw(teamId) == [threw |-> TRUE, rec |-> ZeroedRecord(teamId)]

\* !history || history.length < 2   (undefined < 2 is false)
IsShort(history) ==
  \/ history.shape = "absent"
  \/ history.shape = "array" /\ Len(history.elems) < 2

\* mutant: the short-circuit ignores the points the series has
ShortCircuitZeroed(teamId, history) == Return(ZeroedRecord(teamId))

\* the record of the first return statement
ShortCircuit(teamId, history) ==
  LET n == Len(history.elems)
  IN  IF history.shape = "array" /\ n > 0
      THEN IF ~history.elems[n].obj \/ ~history.elems[1].obj
           THEN Throw(teamId)
           ELSE Return(MetricsRecord(teamId, Zero, Zero, Zero, Zero, Zero,
                                     history.elems[n].value, history.elems[1].value))
      ELSE Return(ZeroedRecord(teamId))

\* mutant: the typeof test is dropped, so values isFinite coerces pass
IsCleanNoTypeof(v) == isFinite(v)

\* v => typeof v === 'number' && isFinite(v)
IsClean(v) == IsNumberType(v) /\ isFinite(v)

\* history.map(h => h.value).filter(...), for an array of non-null elements
CleanValues(elems) ==
  SelectSeq([i \in 1..Len(elems) |-> elems[i].value], IsClean)

\* the record returned when fewer than 2 clean values remain
CleanShortCircuit(teamId, values) ==
  MetricsRecord(teamId, Zero, Zero, Zero, Zero, Zero,
                IF Len(values) > 0 THEN values[Len(values)] ELSE Zero,
                IF Len(values) > 0 THEN values[1] ELSE Zero)

\* mutant: the return is left a fraction, not a percentage
TotalReturnFraction(starting, current) ==
  IF ~IsZero(starting) THEN Div(Sub(current, starting), starting) ELSE Zero

\* mutant: the change is taken relative to the current value
TotalReturnOverCurrent(starting, current) ==
  IF ~IsZero(starting)
  THEN Mul(Div(Sub(current, starting), current), Num(Hundred))
  ELSE Zero

\* starting !== 0 ? ((current - starting) / starting) * 100 : 0
TotalReturn(starting, current) ==
  IF ~IsZero(starting)
  THEN Mul(Div(Sub(current, starting), starting), Num(Hundred))
  ELSE Zero

\* mutant: the value is stored without the finiteness test
FiniteOrSelf(x) == x

\* isFinite(x) ? x : 0
FiniteOrZero(x) == IF isFinite(x) THEN x ELSE Zero

\* the record computed from at least 2 clean values
ComputeMetrics(teamId, values) ==
  LET starting == values[1]
      current == values[Len(values)]
      totalReturn == TotalReturn(starting, current)
      returns == calculateReturns(values)
      maxDrawdown == calculateMaxDrawdown(values)
      sharpeRatio == calculateSharpeRatio(returns)
      sortinoRatio == calculateSortinoRatio(returns)
      calmarRatio == calculateCalmarRatio(totalReturn, maxDrawdown)
  IN  MetricsRecord(teamId, FiniteOrZero(totalReturn), FiniteOrZero(maxDrawdown),
                    FiniteOrZero(sharpeRatio), FiniteOrZero(sortinoRatio),
                    FiniteOrZero(calmarRatio), current, starting)

\* the body of the try block: history.map throws when history is no array,
\* h.value throws when an element is null or undefined
TryBody(teamId, history) ==
  IF history.shape # "array" THEN Throw(teamId)
  ELSE IF \E i \in 1..Len(history.elems) : ~history.elems[i].obj THEN Throw(teamId)
  ELSE LET values == CleanValues(history.elems)
       IN  IF Len(values) < 2 THEN Return(CleanShortCircuit(teamId, values))
           ELSE Return(ComputeMetrics(teamId, values))

\* mutant: the exception is not caught
CatchNothing(teamId, outcome) == outcome

\* try { ... } catch (e) { console.error(...); return the zeroed record }
Catch(teamId, outcome) ==
  IF outcome.threw THEN Return(ZeroedRecord(teamId)) ELSE outcome

calculateTeamMetrics(teamId, history) ==
  IF IsShort(history) THEN ShortCircuit(teamId, history)
  ELSE Catch(teamId, TryBody(teamId, history))

\* ------------------------------------------------------------------- state
VARIABLES
  data,            \* useState<CalculatedMetrics[] | null>: [loaded, rows]
  loading,         \* useState<boolean>
  error,           \* useState<string | null>: a message, or NoError
  lastUpdated,     \* useState<Date | null>: the time of the update, 0 for null
  selectedMetric,  \* useState<MetricType>
  days,            \* useState<number>
  mounted,         \* whether the mount effect has run
  inflight,        \* the requests awaiting their response: [id, days]
  nextReq,         \* the number the next request gets (issue order)
  now,             \* logical clock: the responses handled so far
  dataReq,         \* the request whose response data reflects (0: none)
  dataTeams,       \* response.teams of that response, as it was received
  pc,              \* function-call harness: "idle", "call" or "done"
  call,            \* function-call harness: [fn, teamId, history, values]
  result           \* function-call harness: [metrics, returns, number, rounded, rows]

compVars == <<data, loading, error, lastUpdated, selectedMetric, days, mounted,
              inflight, nextReq, now, dataReq, dataTeams>>
callVars == <<pc, call, result>>
vars == <<data, loading, error, lastUpdated, selectedMetric, days, mounted,
          inflight, nextReq, now, dataReq, dataTeams, pc, call, result>>

\* most requests one run issues
MaxRequests == 2

NoData == [loaded |-> FALSE, rows |-> <<>>]
NoError == "<null>"
MetricTypes == {"sharpe_ratio", "sortino_ratio", "calmar_ratio", "max_drawdown", "total_return"}
DayChoices == {1, 7, 30}
TeamIds == {"A", "B"}

\* the messages of the errors a refresh can end with
HttpErrorMessage == "HTTP 500 Internal Server Error"
NetworkErrorMessage == "Failed to fetch"
AbortErrorMessage == "signal is aborted without reason"
TypeErrorMessage == "Cannot read properties of null (reading 'value')"
RejectMessages == {HttpErrorMessage, NetworkErrorMessage, AbortErrorMessage}

\* the series a response of the server carries for one team
ResponseSeries ==
  { Array(<<>>),
    Array(<<NullElem>>),
    Array(<<Point(Num(2)), Point(Num(3))>>),
    Array(<<Point(Num(3)), Point(Num(1)), Point(BadString), Point(Num(2))>>) }

\* response.teams, as Object.entries lists it: entries [id, history] with
\* distinct ids, in the order of the keys
Entry(id, history) == [id |-> id, history |-> history]
ResponseTeams ==
  {<<>>}
  \cup { <<Entry(t, h)>> : t \in TeamIds, h \in ResponseSeries }
  \cup { <<Entry(t[1], h1), Entry(t[2], h2)>> :
           t \in {x \in TeamIds \X TeamIds : x[1] # x[2]},
           h1 \in ResponseSeries, h2 \in ResponseSeries }

IdleCall == [fn |-> "none", teamId |-> "A", history |-> Absent, values |-> <<>>]
NoResult == [metrics |-> Throw("A"), returns |-> <<>>, number |-> Zero, rounded |-> Zero,
             rows |-> <<>>]

\* the component as constructed (useState initial values), before its effect
InitComponent ==
  /\ data = NoData
  /\ loading = TRUE
  /\ error = NoError
  /\ lastUpdated = 0
  /\ selectedMetric = "sharpe_ratio"
  /\ days = 7
  /\ mounted = FALSE
  /\ inflight = {}
  /\ nextReq = 1
  /\ now = 0
  /\ dataReq = 0
  /\ dataTeams = <<>>

Init ==
  /\ InitComponent
  /\ pc = "idle"
  /\ call = IdleCall
  /\ result = NoResult

\* fetchData up to its await: setError(null), then the request leaves with the
\* days of the render that created this fetchData
StartFetch(d) ==
  /\ nextReq <= MaxRequests
  /\ error' = NoError
  /\ inflight' = inflight \cup {[id |-> nextReq, days |-> d]}
  /\ nextReq' = nextReq + 1

\* useEffect(() => { fetchData(); setInterval(fetchData, POLL_MS) }, [days]) on mount
Mount ==
  /\ ~mounted
  /\ mounted' = TRUE
  /\ StartFetch(days)
  /\ UNCHANGED <<data, loading, lastUpdated, selectedMetric, days, now, dataReq,
                 dataTeams>>
  /\ UNCHANGED callVars

\* the interval fires: fetchData()
PollTick ==
  /\ mounted
  /\ StartFetch(days)
  /\ UNCHANGED <<data, loading, lastUpdated, selectedMetric, days, mounted, now, dataReq,
                 dataTeams>>
  /\ UNCHANGED callVars

\* the Refresh button: onClick={fetchData}
ClickRefresh ==
  /\ mounted
  /\ StartFetch(days)
  /\ UNCHANGED <<data, loading, lastUpdated, selectedMetric, days, mounted, now, dataReq,
                 dataTeams>>
  /\ UNCHANGED callVars

\* a days button: setDays(d); the effect runs again for the new days (the old
\* interval is cleared, requests in flight are not aborted)
SelectDays(d) ==
  /\ mounted
  /\ d # days
  /\ days' = d
  /\ StartFetch(d)
  /\ UNCHANGED <<data, loading, lastUpdated, selectedMetric, mounted, now, dataReq,
                 dataTeams>>
  /\ UNCHANGED callVars

\* a metric button: setSelectedMetric(metric)
SelectMetric(m) ==
  /\ mounted
  /\ m # selectedMetric
  /\ selectedMetric' = m
  /\ UNCHANGED <<data, loading, error, lastUpdated, days, mounted, inflight, nextReq,
                 now, dataReq,
                 dataTeams>>
  /\ UNCHANGED callVars

\* mutant: every entity is computed from the series of the first entry
MapTeamsFirstSeries(teams) ==
  [i \in 1..Len(teams) |-> calculateTeamMetrics(teams[i].id, teams[1].history)]

\* Object.entries(response.teams).map(([teamId, history]) => calculateTeamMetrics(..))
MapTeams(teams) ==
  [i \in 1..Len(teams) |-> calculateTeamMetrics(teams[i].id, teams[i].history)]

\* ------------------------------------------------------------- chartData
\* team[selectedMetric], as the two switch statements read it
MetricValue(team, metric) ==
  CASE metric = "sharpe_ratio" -> team.sharpe_ratio
    [] metric = "sortino_ratio" -> team.sortino_ratio
    [] metric = "calmar_ratio" -> team.calmar_ratio
    [] metric = "max_drawdown" -> team.max_drawdown
    [] metric = "total_return" -> team.total_return

\* mutant: every metric is sorted with the larger value first
ComparatorAllDescending(a, b, metric) ==
  Compare(MetricValue(b, metric), MetricValue(a, metric))

\* the sign of the comparator of the sort: aVal - bVal for max_drawdown,
\* bVal - aVal for the other metrics
Comparator(a, b, metric) ==
  IF metric = "max_drawdown"
  THEN Compare(MetricValue(a, metric), MetricValue(b, metric))
  ELSE Compare(MetricValue(b, metric), MetricValue(a, metric))

\* x put into a sorted sequence before the first element it must precede
RECURSIVE InsertSorted(_, _, _)
InsertSorted(x, sorted, metric) ==
  IF sorted = <<>> THEN <<x>>
  ELSE IF Comparator(x, Head(sorted), metric) < 0 THEN <<x>> \o sorted
  ELSE <<Head(sorted)>> \o InsertSorted(x, Tail(sorted), metric)

\* [...data].sort(comparator): Array.prototype.sort is stable, so with a
\* consistent comparator the result is that of an insertion sort
RECURSIVE SortRows(_, _)
SortRows(rows, metric) ==
  IF rows = <<>> THEN <<>>
  ELSE InsertSorted(rows[Len(rows)], SortRows(SubSeq(rows, 1, Len(rows) - 1), metric), metric)

\* the number of colours of getBarColor
PaletteSize == 8

\* the useMemo of chartData over [data, selectedMetric]; color is the index
\* of the colour in the palette
chartData(d, metric) ==
  IF ~d.loaded THEN <<>>
  ELSE LET sorted == SortRows(d.rows, metric)
       IN  [idx \in 1..Len(sorted) |->
              [team_id |-> sorted[idx].team_id,
               value |-> MetricValue(sorted[idx], metric),
               rank |-> idx,
               color |-> (idx - 1) % PaletteSize]]

\* ---------------------------------------------------------- sortRowsDesc
\* (QTCQuantLeaderboard.tsx) a row is [team_id, portfolio_value], the value a
\* number or null
LeaderboardItem(id, v) == [team_id |-> id, portfolio_value |-> v]

\* a.localeCompare(b) for the ids of the model, "A" before "B"
LocaleCompare(a, b) == IF a = b THEN 0 ELSE IF a = "A" THEN -1 ELSE 1

\* v ?? -Infinity
OrNegInfinity(v) == IF v.k \in {"null", "undefined"} THEN NegInf ELSE v

\* the sign of the comparator of sortRowsDesc
RowComparator(a, b) ==
  LET av == OrNegInfinity(a.portfolio_value)
      bv == OrNegInfinity(b.portfolio_value)
  IN  IF av = bv THEN LocaleCompare(a.team_id, b.team_id)
      ELSE Sgn(Sub(bv, av))

RECURSIVE InsertRow(_, _)
InsertRow(x, sorted) ==
  IF sorted = <<>> THEN <<x>>
  ELSE IF RowComparator(x, Head(sorted)) < 0 THEN <<x>> \o sorted
  ELSE <<Head(sorted)>> \o InsertRow(x, Tail(sorted))

\* copy = [...rows]; copy.sort(comparator); return copy.  The values are
\* never NaN, so the comparator is consistent and the stable sort of the
\* engine gives the result of an insertion sort
RECURSIVE sortRowsDesc(_)
sortRowsDesc(rows) ==
  IF rows = <<>> THEN <<>>
  ELSE InsertRow(rows[Len(rows)], sortRowsDesc(SubSeq(rows, 1, Len(rows) - 1)))

\* the result of that map for each response, computed once
OutcomesOf == [teams \in ResponseTeams |-> MapTeams(teams)]

\* mutant: the new records are appended to those of the refresh before
FetchResolveMerging(req, teams) ==
  /\ req \in inflight
  /\ inflight' = inflight \ {req}
  /\ now' = now + 1
  /\ LET outcomes == OutcomesOf[teams]
     IN  IF \E i \in 1..Len(teams) : outcomes[i].threw
         THEN /\ error' = TypeErrorMessage
              /\ UNCHANGED <<data, lastUpdated, dataReq, dataTeams>>
         ELSE /\ data' = [loaded |-> TRUE,
                          rows |-> data.rows \o [i \in 1..Len(teams) |-> outcomes[i].rec]]
              /\ lastUpdated' = now + 1
              /\ dataReq' = req.id
              /\ dataTeams' = teams
              /\ UNCHANGED error
  /\ loading' = FALSE
  /\ UNCHANGED <<selectedMetric, days, mounted, nextReq>>
  /\ UNCHANGED callVars

\* fetchData after its await, the response being ok: the metrics are computed
\* and stored, or the exception of the computation is caught
FetchResolve(req, teams) ==
  /\ req \in inflight
  /\ inflight' = inflight \ {req}
  /\ now' = now + 1
  /\ LET outcomes == OutcomesOf[teams]
     IN  IF \E i \in 1..Len(teams) : outcomes[i].threw
         THEN /\ error' = TypeErrorMessage
              /\ UNCHANGED <<data, lastUpdated, dataReq, dataTeams>>
         ELSE /\ data' = [loaded |-> TRUE,
                          rows |-> [i \in 1..Len(teams) |-> outcomes[i].rec]]
              /\ lastUpdated' = now + 1
              /\ dataReq' = req.id
              /\ dataTeams' = teams
              /\ UNCHANGED error
  /\ loading' = FALSE
  /\ UNCHANGED <<selectedMetric, days, mounted, nextReq>>
  /\ UNCHANGED callVars

\* mutant: a failed request discards the data shown
FetchRejectClearing(req, msg) ==
  /\ req \in inflight
  /\ inflight' = inflight \ {req}
  /\ now' = now + 1
  /\ error' = msg
  /\ loading' = FALSE
  /\ data' = NoData
  /\ UNCHANGED <<lastUpdated, dataReq, dataTeams, selectedMetric, days, mounted, nextReq>>
  /\ UNCHANGED callVars

\* fetchData after its await, fetchJson having thrown (HTTP status, network
\* error, or the abort of the 12 s timer)
FetchReject(req, msg) ==
  /\ req \in inflight
  /\ inflight' = inflight \ {req}
  /\ now' = now + 1
  /\ error' = msg
  /\ loading' = FALSE
  /\ UNCHANGED <<data, lastUpdated, dataReq, dataTeams, selectedMetric, days, mounted,
                 nextReq>>
  /\ UNCHANGED callVars

Next ==
  \/ Mount
  \/ PollTick
  \/ ClickRefresh
  \/ \E d \in DayChoices : SelectDays(d)
  \/ \E m \in MetricTypes : SelectMetric(m)
  \/ \E req \in inflight, teams \in ResponseTeams : FetchResolve(req, teams)
  \/ \E req \in inflight, msg \in RejectMessages : FetchReject(req, msg)

Spec == Init /\ [][Next]_vars

\* ------------------------------------------------- calls of the pure functions
FiniteValues == {Num(v) : v \in (-MaxVal)..MaxVal}
\* what a number[] can hold
NumberValues == FiniteValues \cup {NaN, PosInf, NegInf}
\* what the value field of a point of the response can hold
JSValues == NumberValues \cup {Undefined, BadString, NullValue}
Elements == {NullElem} \cup {Point(v) : v \in JSValues}
\* largest denominator of a return given to a ratio function
MaxDen == 2
\* the returns and percentages given to the ratio functions: finite, as
\* calculateReturns and calculateTeamMetrics produce them
ReturnValues == {Rat(n, d) : n \in (-MaxVal)..MaxVal, d \in 1..MaxDen}
\* what JSON.parse gives for a portfolio_value: null, a finite number, or an
\* infinity for a literal beyond the range of a double (1e999, -1e999)
PortfolioValues == {NullValue, PosInf, NegInf} \cup {Num(v) : v \in 1..MaxVal}
LeaderboardItems == {LeaderboardItem(t, v) : t \in TeamIds, v \in PortfolioValues}

TeamMetricsCall(t, h) ==
  [fn |-> "calculateTeamMetrics", teamId |-> t, history |-> h, values |-> <<>>]
ValuesCall(f, v) == [fn |-> f, teamId |-> "A", history |-> Absent, values |-> v]

\* one call is about to be made: calculateTeamMetrics on an absent series, on
\* a value that is no array or on an array of up to MaxLen elements, or
\* calculateReturns / calculateMaxDrawdown on up to MaxLen numbers,
\* calculateSharpeRatio / calculateSortinoRatio on up to MaxLen returns, or
\* calculateCalmarRatio on a total return and a drawdown (values = <<x, d>>),
\* or sortRowsDesc on up to MaxLen rows (values = the rows)
InitCalc ==
  /\ InitComponent
  /\ pc = "call"
  /\ result = NoResult
  /\ \/ \E t \in TeamIds, h \in {Absent, NotArray} : call = TeamMetricsCall(t, h)
     \/ \E t \in TeamIds, k \in 0..MaxLen :
          \E e \in [1..k -> Elements] : call = TeamMetricsCall(t, Array(e))
     \/ \E f \in {"calculateReturns", "calculateMaxDrawdown"}, k \in 0..MaxLen :
          \E v \in [1..k -> NumberValues] : call = ValuesCall(f, v)
     \/ \E f \in {"calculateSharpeRatio", "calculateSortinoRatio"}, k \in 0..MaxLen :
          \E v \in [1..k -> ReturnValues] : call = ValuesCall(f, v)
     \/ \E x \in ReturnValues \cup {NaN, PosInf, NegInf}, d \in ReturnValues \cup {PosInf} :
          call = ValuesCall("calculateCalmarRatio", <<x, d>>)
     \/ \E k \in 0..MaxLen :
          \E rows \in [1..k -> LeaderboardItems] : call = ValuesCall("sortRowsDesc", rows)

CallCalculateTeamMetrics ==
  /\ pc = "call"
  /\ call.fn = "calculateTeamMetrics"
  /\ result' = [result EXCEPT !.metrics = calculateTeamMetrics(call.teamId, call.history)]
  /\ pc' = "done"
  /\ UNCHANGED call
  /\ UNCHANGED compVars

CallCalculateReturns ==
  /\ pc = "call"
  /\ call.fn = "calculateReturns"
  /\ result' = [result EXCEPT !.returns = calculateReturns(call.values)]
  /\ pc' = "done"
  /\ UNCHANGED call
  /\ UNCHANGED compVars

CallCalculateMaxDrawdown ==
  /\ pc = "call"
  /\ call.fn = "calculateMaxDrawdown"
  /\ result' = [result EXCEPT !.number = calculateMaxDrawdown(call.values)]
  /\ pc' = "done"
  /\ UNCHANGED call
  /\ UNCHANGED compVars

CallCalculateSharpeRatio ==
  /\ pc = "call"
  /\ call.fn = "calculateSharpeRatio"
  /\ result' = [result EXCEPT
                  !.number = calculateSharpeRatio(call.values),
                  !.rounded = calculateSharpeRatioRounded(AsFloats(call.values))]
  /\ pc' = "done"
  /\ UNCHANGED call
  /\ UNCHANGED compVars

CallCalculateSortinoRatio ==
  /\ pc = "call"
  /\ call.fn = "calculateSortinoRatio"
  /\ result' = [result EXCEPT !.number = calculateSortinoRatio(call.values)]
  /\ pc' = "done"
  /\ UNCHANGED call
  /\ UNCHANGED compVars

CallCalculateCalmarRatio ==
  /\ pc = "call"
  /\ call.fn = "calculateCalmarRatio"
  /\ result' = [result EXCEPT !.number = calculateCalmarRatio(call.values[1], call.values[2])]
  /\ pc' = "done"
  /\ UNCHANGED call
  /\ UNCHANGED compVars

CallSortRowsDesc ==
  /\ pc = "call"
  /\ call.fn = "sortRowsDesc"
  /\ result' = [result EXCEPT !.rows = sortRowsDesc(call.values)]
  /\ pc' = "done"
  /\ UNCHANGED call
  /\ UNCHANGED compVars

NextCalc ==
  \/ CallCalculateTeamMetrics
  \/ CallCalculateReturns
  \/ CallCalculateMaxDrawdown
  \/ CallCalculateSharpeRatio
  \/ CallCalculateSortinoRatio
  \/ CallCalculateCalmarRatio
  \/ CallSortRowsDesc

SpecCalc == InitCalc /\ [][NextCalc]_vars

\* ------------------------------------------------------------------ claims
Done(f) == pc = "done" /\ call.fn = f
\* a finite number (neither NaN nor an infinity nor a non-number)
FiniteNumber(v) == v.k \in {"num", "surd"}
\* the raw series is absent or an array of points (no null/undefined element)
IsSeries(h) ==
  /\ h.shape \in {"absent", "array"}
  /\ \A i \in 1..Len(h.elems) : h.elems[i].obj
\* the values of the series that are finite numbers, in order
FiniteValuesOf(h) ==
  SelectSeq([i \in 1..Len(h.elems) |-> h.elems[i].value], LAMBDA v : v.k = "num")
\* x is the number 0
IsNumZero(x) == x.k = "num" /\ x.n = 0
RatiosAllZero(rec) ==
  /\ IsNumZero(rec.total_return)
  /\ IsNumZero(rec.max_drawdown)
  /\ IsNumZero(rec.sharpe_ratio)
  /\ IsNumZero(rec.sortino_ratio)
  /\ IsNumZero(rec.calmar_ratio)

\* C1: for every series of points (absent, empty, one point, points whose value
\* is missing, non-numeric, NaN or an infinity) every numeric field of the
\* record calculateTeamMetrics returns is a finite number.
C1_EveryFieldFinite ==
  (Done("calculateTeamMetrics") /\ IsSeries(call.history)) =>
    LET rec == result.metrics.rec
    IN  /\ ~result.metrics.threw
        /\ FiniteNumber(rec.total_return)
        /\ FiniteNumber(rec.max_drawdown)
        /\ FiniteNumber(rec.sharpe_ratio)
        /\ FiniteNumber(rec.sortino_ratio)
        /\ FiniteNumber(rec.calmar_ratio)
        /\ FiniteNumber(rec.current_value)
        /\ FiniteNumber(rec.starting_value)

\* C2: calculateTeamMetrics never throws, whatever the shape of the series
\* (absent, no array, elements that are null or lack a value).
C2_NeverThrows ==
  Done("calculateTeamMetrics") => ~result.metrics.threw

\* C3: when a refresh receives a response, data afterwards holds one record per
\* entity of the response: the zeroed record for an entity whose computation
\* failed, and for every other entity the record its own series determines.
FailsOn(e) ==
  \/ calculateTeamMetrics(e.id, e.history).threw
  \/ ~IsSeries(e.history)
C3_FailureIsolated ==
  [][\A req \in inflight, teams \in ResponseTeams :
       FetchResolve(req, teams) =>
         /\ data'.loaded
         /\ Len(data'.rows) = Len(teams)
         /\ \A i \in 1..Len(teams) :
              data'.rows[i] =
                IF FailsOn(teams[i]) THEN ZeroedRecord(teams[i].id)
                ELSE calculateTeamMetrics(teams[i].id, teams[i].history).rec]_vars

\* C4: for a series of points that is absent or has fewer than 2 points the
\* record has the given id, the five ratio fields 0, current_value the value of
\* the last point and starting_value the value of the first (0 without a point).
C4_ShortSeriesRecord ==
  (Done("calculateTeamMetrics") /\ IsSeries(call.history)
     /\ Len(call.history.elems) < 2) =>
    LET e == call.history.elems
        rec == result.metrics.rec
    IN  /\ ~result.metrics.threw
        /\ rec.team_id = call.teamId
        /\ RatiosAllZero(rec)
        /\ rec.current_value = (IF Len(e) > 0 THEN e[Len(e)].value ELSE Zero)
        /\ rec.starting_value = (IF Len(e) > 0 THEN e[1].value ELSE Zero)
C4_Witness ==
  /\ Done("calculateTeamMetrics")
  /\ call.history = Array(<<Point(Num(3))>>)
  /\ ~result.metrics.threw
  /\ result.metrics.rec.current_value = Num(3)
  /\ result.metrics.rec.starting_value = Num(3)
  /\ RatiosAllZero(result.metrics.rec)

\* C5: for a series of at least 2 points of which fewer than 2 carry a finite
\* number the five ratio fields are 0 and current_value = starting_value = the
\* one clean value, or 0 when none remains.
C5_FewCleanValuesRecord ==
  (Done("calculateTeamMetrics") /\ IsSeries(call.history)
     /\ Len(call.history.elems) >= 2 /\ Len(FiniteValuesOf(call.history)) < 2) =>
    LET clean == FiniteValuesOf(call.history)
        rec == result.metrics.rec
        only == IF Len(clean) = 1 THEN clean[1] ELSE Zero
    IN  /\ ~result.metrics.threw
        /\ rec.team_id = call.teamId
        /\ RatiosAllZero(rec)
        /\ rec.current_value = only
        /\ rec.starting_value = only
C5_Witness ==
  /\ Done("calculateTeamMetrics")
  /\ call.history = Array(<<Point(NaN), Point(Num(3)), Point(BadString)>>)
  /\ result.metrics.rec.current_value = Num(3)
  /\ result.metrics.rec.starting_value = Num(3)
  /\ RatiosAllZero(result.metrics.rec)

\* C6: for every series S of points, of any length, calculateTeamMetrics(id, S)
\* is the record of S with the points removed whose value is no finite number.
WithoutInvalid(h) ==
  Array(SelectSeq(h.elems, LAMBDA e : e.value.k = "num"))
C6_InvalidEntriesInvisible ==
  (Done("calculateTeamMetrics") /\ IsSeries(call.history)
     /\ call.history.shape = "array") =>
    result.metrics = calculateTeamMetrics(call.teamId, WithoutInvalid(call.history))

\* C7: with at least 2 clean values, starting_value is the first clean value,
\* current_value the last, and total_return is ((current - starting) /
\* starting) * 100, or 0 when starting is 0, whatever lies between them.
C7_TotalReturn ==
  (Done("calculateTeamMetrics") /\ IsSeries(call.history)
     /\ Len(FiniteValuesOf(call.history)) >= 2) =>
    LET clean == FiniteValuesOf(call.history)
        rec == result.metrics.rec
        first == clean[1].n
        last == clean[Len(clean)].n
        tr == rec.total_return
    IN  /\ ~result.metrics.threw
        /\ rec.starting_value = Num(first)
        /\ rec.current_value = Num(last)
        /\ tr.k = "num"
        /\ IF first # 0 THEN tr.n * first = 100 * (last - first) * tr.d
           ELSE tr.n = 0
C7_Witness ==
  /\ Done("calculateTeamMetrics")
  /\ call.history = Array(<<Point(Num(2)), Point(Num(-1)), Point(Num(3))>>)
  /\ result.metrics.rec.starting_value = Num(2)
  /\ result.metrics.rec.current_value = Num(3)
  /\ result.metrics.rec.total_return = Num(50)

\* C8: calculateReturns emits, in index order, (v[i] - v[i-1]) / v[i-1] for
\* exactly the i with v[i-1] # 0 and both values finite; any other pair
\* contributes no element.
EmittingIndices(v) ==
  {i \in 2..Len(v) : v[i - 1].k = "num" /\ v[i].k = "num" /\ v[i - 1].n # 0}
\* the k-th smallest element of the set of integers S
KthOf(S, k) == CHOOSE x \in S : Cardinality({y \in S : y < x}) = k - 1
C8_Returns ==
  Done("calculateReturns") =>
    LET v == call.values
        I == EmittingIndices(v)
        r == result.returns
    IN  /\ Len(r) = Cardinality(I)
        /\ Len(r) <= (IF Len(v) = 0 THEN 0 ELSE Len(v) - 1)
        /\ \A k \in 1..Len(r) :
             LET i == KthOf(I, k)
             IN  /\ r[k].k = "num"
                 /\ r[k].n * v[i - 1].n = (v[i].n - v[i - 1].n) * r[k].d
C8_Witness ==
  /\ Done("calculateReturns")
  /\ call.values = <<Num(0), Num(2), Num(3)>>
  /\ result.returns = <<Rat(1, 2)>>

\* C9: for strictly positive clean values calculateMaxDrawdown is 100 times
\* the largest (P_i - v_i) / P_i, P_i the largest of v_0 .. v_i; 0 for the
\* empty series.
MaxOf(S) == CHOOSE x \in S : \A y \in S : y <= x
PeakAt(v, i) == MaxOf({v[j].n : j \in 1..i})
C9_MaxDrawdown ==
  (Done("calculateMaxDrawdown")
     /\ \A i \in 1..Len(call.values) : call.values[i].k = "num" /\ call.values[i].n > 0) =>
    LET v == call.values
        r == result.number
    IN  /\ r.k = "num"
        /\ Len(v) = 0 => r.n = 0
        /\ \A i \in 1..Len(v) :
             r.n * PeakAt(v, i) >= 100 * (PeakAt(v, i) - v[i].n) * r.d
        /\ Len(v) > 0 =>
             \E i \in 1..Len(v) :
               r.n * PeakAt(v, i) = 100 * (PeakAt(v, i) - v[i].n) * r.d
C9_Witness ==
  /\ Done("calculateMaxDrawdown")
  /\ call.values = <<Num(3), Num(2), Num(3)>>
  /\ result.number = Rat(100, 3)

\* C10: the max_drawdown of every record calculateTeamMetrics returns is a
\* number >= 0, also for series with zero or negative values.
C10_DrawdownNonNegative ==
  (Done("calculateTeamMetrics") /\ ~result.metrics.threw) =>
    /\ result.metrics.rec.max_drawdown.k = "num"
    /\ result.metrics.rec.max_drawdown.n >= 0
C10_Witness ==
  /\ Done("calculateTeamMetrics")
  /\ call.history = Array(<<Point(Num(-1)), Point(Num(0)), Point(Num(-2))>>)
  /\ ~result.metrics.threw
  /\ result.metrics.rec.max_drawdown = Zero
  /\ result.metrics.rec.total_return = Num(100)

\* C11: for every non-decreasing sequence of numbers (each value >= the one
\* before it, zero and negative values included) calculateMaxDrawdown is 0.
Ge(a, b) == Gt(a, b) \/ (a.k # "nan" /\ a = b)
NonDecreasing(v) == \A i \in 2..Len(v) : Ge(v[i], v[i - 1])
C11_MonotonicZeroDrawdown ==
  (Done("calculateMaxDrawdown") /\ NonDecreasing(call.values)) =>
    result.number = Zero
C11_Witness ==
  /\ Done("calculateMaxDrawdown")
  /\ call.values = <<Num(-2), Num(0), Num(0)>>
  /\ result.number = Zero

\* C12 as stated: every sequence of positive returns has a Sharpe ratio > 0
\* and every sequence of negative returns has a Sharpe ratio < 0.
AllPositive(v) == \A i \in 1..Len(v) : Gt(v[i], Zero)
AllNegative(v) == \A i \in 1..Len(v) : Lt(v[i], Zero)
AllEqual(v) == \A i \in 1..Len(v) : v[i] = v[1]
\* x > 0 and x < 0 for a finite result of a ratio function
Positive(x) == FiniteNumber(x) /\ Sgn(x) = 1
Negative(x) == FiniteNumber(x) /\ Sgn(x) = -1
C12_SignAlignmentAnySequence ==
  Done("calculateSharpeRatio") =>
    /\ AllPositive(call.values) => Positive(result.number)
    /\ AllNegative(call.values) => Negative(result.number)

\* C12 amended: for every sequence of at least 2 returns that are not all
\* equal, the Sharpe ratio is > 0 when every return is positive and < 0 when
\* every return is negative.
C12_SignAlignment ==
  (Done("calculateSharpeRatio") /\ Len(call.values) >= 2 /\ ~AllEqual(call.values)) =>
    /\ AllPositive(call.values) => Positive(result.number)
    /\ AllNegative(call.values) => Negative(result.number)
C12_Witness ==
  /\ Done("calculateSharpeRatio")
  /\ call.values = <<Num(-1), Num(-2)>>
  /\ result.number = Surd(-1, Num(1134))

\* C13: calculateSharpeRatio returns 0 for fewer than 2 returns, and returns 0
\* whenever all returns are equal, for any constant r and any length >= 2.
\* The result is the one of the rounded arithmetic the code runs in.
C13_ZeroWhenDegenerate ==
  (Done("calculateSharpeRatio") /\ (Len(call.values) < 2 \/ AllEqual(call.values))) =>
    result.rounded = Zero

\* C14: for n >= 2 returns that are not all equal, calculateSharpeRatio
\* returns s with the sign of the mean and s^2 * V = 252 * mean^2, V the
\* sample variance sum((r - mean)^2) / (n - 1).
\* With the returns written R_i / L over a common denominator L, S the sum of
\* the R_i and Q the sum of their squares, mean = S / (n L) and
\* V = (n Q - S^2) / (n (n - 1) L^2), so s^2 = 252 S^2 (n - 1) / (n (n Q - S^2)).
RECURSIVE LcmDen(_)
LcmDen(v) ==
  IF v = <<>> THEN 1
  ELSE LET l == LcmDen(Tail(v)) IN (Head(v).d * l) \div GCD(Head(v).d, l)
Scaled(v) == LET L == LcmDen(v) IN [i \in 1..Len(v) |-> v[i].n * (L \div v[i].d)]
RECURSIVE IntSum(_)
IntSum(R) == IF R = <<>> THEN 0 ELSE Head(R) + IntSum(Tail(R))
Squares(R) == [i \in 1..Len(R) |-> R[i] * R[i]]
SignOfInt(i) == IF i > 0 THEN 1 ELSE IF i < 0 THEN -1 ELSE 0
C14_SharpeFormula ==
  (Done("calculateSharpeRatio") /\ Len(call.values) >= 2 /\ ~AllEqual(call.values)) =>
    LET n == Len(call.values)
        R == Scaled(call.values)
        S == IntSum(R)
        Q == IntSum(Squares(R))
        s == result.number
    IN  /\ FiniteNumber(s)
        /\ Sgn(s) = SignOfInt(S)
        /\ n * Q - S * S > 0
        /\ SquareOf(s) = Rat(TradingDays * S * S * (n - 1), n * (n * Q - S * S))
C14_Witness ==
  /\ Done("calculateSharpeRatio")
  /\ call.values = <<Num(1), Rat(1, 2), Num(3)>>
  /\ result.number = Surd(1, Num(324))

\* C15: calculateSortinoRatio returns 0 for fewer than 2 returns, and returns
\* 0 whenever no return is strictly negative (a return of 0 is no downside),
\* whatever the mean.
NoneNegative(v) == \A i \in 1..Len(v) : ~Lt(v[i], Zero)
C15_SortinoZeroWithoutDownside ==
  (Done("calculateSortinoRatio") /\ (Len(call.values) < 2 \/ NoneNegative(call.values))) =>
    result.number = Zero
C15_Witness ==
  /\ Done("calculateSortinoRatio")
  /\ call.values = <<Num(0), Num(2), Rat(1, 2)>>
  /\ result.number = Zero

\* C16: for n >= 2 returns of which at least one is strictly negative,
\* calculateSortinoRatio returns s with the sign of the mean of all returns
\* and s^2 * D = 252 * mean^2, D = (sum of r^2 over the negative returns) /
\* (number of negative returns).
\* With the returns R_i / L, S their sum, m the number of negative ones and
\* QNeg the sum of their squares: s^2 = 252 S^2 m / (n^2 QNeg).
NegativeOnly(R) == SelectSeq(R, LAMBDA x : x < 0)
C16_SortinoFormula ==
  (Done("calculateSortinoRatio") /\ Len(call.values) >= 2 /\ ~NoneNegative(call.values)) =>
    LET n == Len(call.values)
        R == Scaled(call.values)
        S == IntSum(R)
        m == Len(NegativeOnly(R))
        QNeg == IntSum(Squares(NegativeOnly(R)))
        s == result.number
    IN  /\ FiniteNumber(s)
        /\ Sgn(s) = SignOfInt(S)
        /\ SquareOf(s) = Rat(TradingDays * S * S * m, n * n * QNeg)
C16_Witness ==
  /\ Done("calculateSortinoRatio")
  /\ call.values = <<Num(-1), Num(3), Num(-1)>>
  /\ result.number = Surd(1, Num(28))

\* C17: two return sequences of the same length with the same sub-sequence of
\* strictly negative returns and the same mean, differing only in their
\* non-negative returns, have the same Sortino ratio.
\* The second sequence ranges over all sequences of returns in
\* -MaxPair..MaxPair of the length of the first.
MaxPair == 2
PairValues == {Num(v) : v \in (-MaxPair)..MaxPair}
Downside(v) == SelectSeq(v, LAMBDA r : Lt(r, Zero))
MeanOf(v) == Div(Sum(v), Num(Len(v)))
SameDownsideAndMean(v, w) ==
  /\ Len(v) = Len(w)
  /\ Downside(v) = Downside(w)
  /\ MeanOf(v) = MeanOf(w)
C17_SortinoUpsideIndependent ==
  (Done("calculateSortinoRatio") /\ \A i \in 1..Len(call.values) : call.values[i] \in PairValues) =>
    LET downside == Downside(call.values)
        mean == MeanOf(call.values)
    IN  \A other \in [1..Len(call.values) -> PairValues] :
          (Downside(other) = downside /\ MeanOf(other) = mean) =>
            calculateSortinoRatio(other) = result.number
C17_Witness ==
  /\ Done("calculateSortinoRatio")
  /\ call.values = <<Num(0), Num(-1), Num(2)>>
  /\ SameDownsideAndMean(call.values, <<Num(-1), Num(1), Num(1)>>)
  /\ calculateSortinoRatio(<<Num(-1), Num(1), Num(1)>>) = result.number
  /\ result.number = Surd(1, Num(28))

\* C18: calculateCalmarRatio(x, 0) = 0 for every x; for every d # 0,
\* calculateCalmarRatio(x, d) = (x / 100) / (d / 100) = x / d; and whenever
\* the max_drawdown of a record is positive, its calmar_ratio * max_drawdown
\* = total_return and calmar_ratio has the sign of total_return.
C18_Calmar ==
  /\ Done("calculateCalmarRatio") =>
       LET x == call.values[1]
           d == call.values[2]
           r == result.number
       IN  /\ IsZero(d) => r = Zero
           /\ ~IsZero(d) => r = Div(x, d)
           /\ (~IsZero(d) /\ x.k = "num" /\ d.k = "num") =>
                /\ r.k = "num"
                /\ r.n * d.n * x.d = x.n * d.d * r.d
  /\ (Done("calculateTeamMetrics") /\ ~result.metrics.threw
        /\ Gt(result.metrics.rec.max_drawdown, Zero)) =>
       LET rec == result.metrics.rec
           c == rec.calmar_ratio
           dd == rec.max_drawdown
           tr == rec.total_return
       IN  /\ c.k = "num" /\ dd.k = "num" /\ tr.k = "num"
           /\ c.n * dd.n * tr.d = tr.n * c.d * dd.d
           /\ Sgn(c) = Sgn(tr)
C18_Witness ==
  /\ Done("calculateTeamMetrics")
  /\ call.history = Array(<<Point(Num(2)), Point(Num(3)), Point(Num(1))>>)
  /\ ~result.metrics.threw
  /\ result.metrics.rec.max_drawdown = Rat(200, 3)
  /\ result.metrics.rec.total_return = Num(-50)
  /\ result.metrics.rec.calmar_ratio = Rat(-3, 4)
C18_WitnessCall ==
  /\ Done("calculateCalmarRatio")
  /\ call.values = <<Num(3), Num(2)>>
  /\ result.number = Rat(3, 2)

StrictlyIncreasing(v) == \A i \in 2..Len(v) : Gt(v[i], v[i - 1])
C21_NoDrawdownNoCalmar ==
  (Done("calculateTeamMetrics") /\ IsSeries(call.history)
     /\ Len(FiniteValuesOf(call.history)) >= 2
     /\ AllPositive(FiniteValuesOf(call.history))
     /\ StrictlyIncreasing(FiniteValuesOf(call.history))) =>
    LET clean == FiniteValuesOf(call.history)
        rec == result.metrics.rec
        first == clean[1].n
        last == clean[Len(clean)].n
        tr == rec.total_return
    IN  /\ ~result.metrics.threw
        /\ rec.max_drawdown = Zero
        /\ rec.calmar_ratio = Zero
        /\ rec.starting_value = Num(first)
        /\ rec.current_value = Num(last)
        /\ tr.k = "num" /\ tr.n > 0
        /\ tr.n * first = 100 * (last - first) * tr.d
C21_Witness ==
  /\ Done("calculateTeamMetrics")
  /\ call.history = Array(<<Point(Num(1)), Point(Num(2)), Point(Num(3))>>)
  /\ ~result.metrics.threw
  /\ result.metrics.rec.total_return = Num(200)
  /\ result.metrics.rec.max_drawdown = Zero
  /\ result.metrics.rec.calmar_ratio = Zero
  /\ result.metrics.rec.starting_value = Num(1)
  /\ result.metrics.rec.current_value = Num(3)

\* C22: after every successful refresh data holds exactly one record per key
\* of the response's teams, with team_id that key and computed from that key's
\* series in this response; no record of an earlier refresh is kept, so an
\* entity absent from the latest response has no record.
RowsOf(t) == {i \in 1..Len(data.rows) : data.rows[i].team_id = t}
KeysOf(t) == {i \in 1..Len(dataTeams) : dataTeams[i].id = t}
C22_OneRecordPerKey ==
  data.loaded =>
    /\ \A t \in TeamIds :
         /\ Cardinality(KeysOf(t)) <= 1
         /\ Cardinality(RowsOf(t)) = Cardinality(KeysOf(t))
         /\ \A i \in RowsOf(t), j \in KeysOf(t) :
              data.rows[i] = calculateTeamMetrics(t, dataTeams[j].history).rec
    /\ \A i \in 1..Len(data.rows) : data.rows[i].team_id \in TeamIds
\* a second successful refresh whose response holds B only
C22_Witness ==
  /\ data.loaded
  /\ lastUpdated = 2
  /\ now = 2
  /\ dataTeams = <<Entry("B", Array(<<Point(Num(2)), Point(Num(3))>>))>>
  /\ Len(data.rows) = 1
  /\ data.rows[1].team_id = "B"
  /\ data.rows[1].total_return = Num(50)

\* C23: the ranking shown for the selected metric is a permutation of the
\* current records with rank = position + 1 (positions from 0), ordered
\* non-increasing by the selected field for sharpe_ratio, sortino_ratio,
\* calmar_ratio and total_return and non-decreasing for max_drawdown, after
\* any sequence of metric selections and refreshes.
IsPermutationOfRows(chart, rows, metric) ==
  /\ Len(chart) = Len(rows)
  /\ \E p \in [1..Len(rows) -> 1..Len(rows)] :
       /\ \A i, j \in 1..Len(rows) : p[i] = p[j] => i = j
       /\ \A i \in 1..Len(rows) :
            /\ chart[i].team_id = rows[p[i]].team_id
            /\ chart[i].value = MetricValue(rows[p[i]], metric)
C23_RankingSorted ==
  LET chart == chartData(data, selectedMetric)
  IN  /\ IsPermutationOfRows(chart, data.rows, selectedMetric)
      /\ \A i \in 1..Len(chart) : chart[i].rank = i
      /\ \A i \in 1..(Len(chart) - 1) :
           IF selectedMetric = "max_drawdown"
           THEN Compare(chart[i].value, chart[i + 1].value) <= 0
           ELSE Compare(chart[i].value, chart[i + 1].value) >= 0
\* the record with the drawdown is listed first in data and ranked second
C23_Witness ==
  /\ data.loaded
  /\ selectedMetric = "max_drawdown"
  /\ Len(data.rows) = 2
  /\ data.rows[1].max_drawdown = Rat(200, 3)
  /\ data.rows[2].max_drawdown = Zero
  /\ chartData(data, selectedMetric)[1].team_id = data.rows[2].team_id
  /\ chartData(data, selectedMetric)[1].value = Zero
  /\ chartData(data, selectedMetric)[2].rank = 2

\* C24: sortRowsDesc returns a permutation of its input ordered by
\* portfolio_value descending, every row whose portfolio_value is null after
\* every row with a numeric value, rows with equal values (several null rows
\* included) ordered by team_id ascending; the input array is not reordered.
IsPermutationOf(s, t) ==
  /\ Len(s) = Len(t)
  /\ \E p \in [1..Len(t) -> 1..Len(t)] :
       /\ \A i, j \in 1..Len(t) : p[i] = p[j] => i = j
       /\ \A i \in 1..Len(t) : s[i] = t[p[i]]
IsNullRow(r) == r.portfolio_value.k = "null"
C24_SortRowsDesc ==
  Done("sortRowsDesc") =>
    LET s == result.rows
    IN  /\ IsPermutationOf(s, call.values)
        /\ \A i, j \in 1..Len(s) :
             i < j =>
               /\ IsNullRow(s[i]) => IsNullRow(s[j])
               /\ (~IsNullRow(s[i]) /\ ~IsNullRow(s[j])) =>
                    ~Gt(s[j].portfolio_value, s[i].portfolio_value)
               /\ s[i].portfolio_value = s[j].portfolio_value =>
                    LocaleCompare(s[i].team_id, s[j].team_id) <= 0

\* C25: when the computation fails for a series of at least 2 raw points (an
\* element of the series is null), calculateTeamMetrics returns the zeroed
\* record of that entity: team_id the given id and the seven numeric fields 0,
\* even when the series also holds valid points.
HasNullElement(h) == \E i \in 1..Len(h.elems) : ~h.elems[i].obj
C25_FailureGivesZeroedRecord ==
  (Done("calculateTeamMetrics") /\ call.history.shape = "array"
     /\ Len(call.history.elems) >= 2 /\ HasNullElement(call.history)) =>
    /\ ~result.metrics.threw
    /\ result.metrics.rec.team_id = call.teamId
    /\ RatiosAllZero(result.metrics.rec)
    /\ IsNumZero(result.metrics.rec.current_value)
    /\ IsNumZero(result.metrics.rec.starting_value)
C25_Witness ==
  /\ Done("calculateTeamMetrics")
  /\ call.teamId = "B"
  /\ call.history = Array(<<Point(Num(2)), NullElem, Point(Num(3))>>)
  /\ ~result.metrics.threw
  /\ result.metrics.rec = ZeroedRecord("B")

\* C26: for every series of at least 2 clean values that are all <= 0 the
\* record has max_drawdown = 0 and calmar_ratio = 0, even when the values
\* decline (a step whose running peak is 0 contributes nothing or a
\* non-finite drawdown that the finiteness guard turns into 0).
NonePositive(v) == \A i \in 1..Len(v) : ~Gt(v[i], Zero)
C26_NoDrawdownBelowZero ==
  (Done("calculateTeamMetrics") /\ IsSeries(call.history)
     /\ Len(FiniteValuesOf(call.history)) >= 2
     /\ NonePositive(FiniteValuesOf(call.history))) =>
    /\ ~result.metrics.threw
    /\ result.metrics.rec.max_drawdown = Zero
    /\ result.metrics.rec.calmar_ratio = Zero
\* a decline from a peak of 0: the drawdown computed is +Infinity
C26_Witness ==
  /\ Done("calculateTeamMetrics")
  /\ call.history = Array(<<Point(Num(0)), Point(Num(-1)), Point(Num(-3))>>)
  /\ calculateMaxDrawdown(<<Num(0), Num(-1), Num(-3)>>) = PosInf
  /\ ~result.metrics.threw
  /\ result.metrics.rec.max_drawdown = Zero
  /\ result.metrics.rec.calmar_ratio = Zero
  /\ result.metrics.rec.current_value = Num(-3)

\* C27: responses are applied in request order: with any interleaving of poll
\* ticks, manual refreshes and changes of the days window, data is never
\* overwritten by the response of a request issued before the request whose
\* response data currently reflects.
C27_ResponsesInRequestOrder ==
  [][dataReq' >= dataReq]_vars

\* C28: a failed refresh (HTTP error status, network error, the 12-second
\* abort, or an exception while the metrics are computed) leaves data and
\* lastUpdated as they were, sets error to a non-empty message and loading to
\* false; a later refresh clears error when it starts.
ThrowingResponses ==
  {teams \in ResponseTeams : \E i \in 1..Len(teams) : OutcomesOf[teams][i].threw}
FailureKeepsData ==
  /\ data' = data
  /\ lastUpdated' = lastUpdated
  /\ error' \notin {NoError, ""}
  /\ loading' = FALSE
C28_FailedRefresh ==
  [][/\ \A req \in inflight, msg \in RejectMessages :
          FetchReject(req, msg) => FailureKeepsData
     /\ \A req \in inflight, teams \in ThrowingResponses :
          FetchResolve(req, teams) => FailureKeepsData
     /\ nextReq' # nextReq => error' = NoError]_vars
\* a refresh failed after one that succeeded: the data is still shown
C28_Witness ==
  /\ data.loaded
  /\ lastUpdated = 1
  /\ now = 2
  /\ error = AbortErrorMessage
  /\ ~loading

\* C29: the record's sharpe_ratio and sortino_ratio are both 0 whenever the
\* clean series yields fewer than 2 returns, that is, has fewer than 3 clean
\* values or fewer than 2 adjacent pairs whose first element is nonzero; with
\* exactly 2 clean values they are 0 while total_return, max_drawdown and
\* calmar_ratio may be nonzero.
C29_FewReturnsNoRatios ==
  (Done("calculateTeamMetrics") /\ IsSeries(call.history)
     /\ (\/ Len(FiniteValuesOf(call.history)) < 3
         \/ Cardinality(EmittingIndices(FiniteValuesOf(call.history))) < 2)) =>
    /\ ~result.metrics.threw
    /\ result.metrics.rec.sharpe_ratio = Zero
    /\ result.metrics.rec.sortino_ratio = Zero
C29_Witness ==
  /\ Done("calculateTeamMetrics")
  /\ call.history = Array(<<Point(Num(3)), Point(Num(2))>>)
  /\ ~result.metrics.threw
  /\ result.metrics.rec.sharpe_ratio = Zero
  /\ result.metrics.rec.sortino_ratio = Zero
  /\ result.metrics.rec.total_return = Rat(-100, 3)
  /\ result.metrics.rec.max_drawdown = Rat(100, 3)
  /\ result.metrics.rec.calmar_ratio = Num(-1)

\* C30: for every series whose clean values are all >= 0 the record's
\* max_drawdown lies in 0..100; a value above 100 arises only when a clean
\* value is negative after a positive peak.
NoneNegativeValue(v) == \A i \in 1..Len(v) : v[i].n >= 0
NegativeAfterPositive(v) == \E i, j \in 1..Len(v) : i < j /\ v[i].n > 0 /\ v[j].n < 0
C30_DrawdownRange ==
  (Done("calculateTeamMetrics") /\ IsSeries(call.history)) =>
    LET clean == FiniteValuesOf(call.history)
        md == result.metrics.rec.max_drawdown
    IN  /\ ~result.metrics.threw
        /\ md.k = "num"
        /\ NoneNegativeValue(clean) => (md.n >= 0 /\ md.n <= 100 * md.d)
        /\ md.n > 100 * md.d => NegativeAfterPositive(clean)
\* a fall to 0 from a peak of 3 is a drawdown of exactly 100
C30_Witness ==
  /\ Done("calculateTeamMetrics")
  /\ call.history = Array(<<Point(Num(1)), Point(Num(3)), Point(Num(0))>>)
  /\ ~result.metrics.threw
  /\ result.metrics.rec.max_drawdown = Num(100)
  /\ calculateTeamMetrics("A", Array(<<Point(Num(1)), Point(Num(-3))>>)).rec.max_drawdown
       = Num(400)

=============================================================================
